---- MODULE Spec2Model ----
(***************************************************************************)
(* Model of the fashion recommendation pipeline:                           *)
(*   - semantic_enrichment.py : pairwise similarity score and the          *)
(*     navigation graph builder (generate_navigation_paths),               *)
(*   - recommendation_engine.py : generate_recommendations_for_pair over   *)
(*     a shared metadata cache,                                            *)
(*   - user_simulator.py : simulate_user_sessions,                         *)
(*   - etl.py : process_images_and_store_metadata,                         *)
(*   - semantic_enrichment.py : main, the build followed by                *)
(*     insert_navigation_paths.                                            *)
(*                                                                         *)
(* Scores are Python floats.  A float is modelled as a record              *)
(* [h |-> hundredths, u |-> offset from the double nearest to h/100]; on   *)
(* the values the builder and the engine can produce this pair is          *)
(* order-isomorphic to the IEEE-754 doubles the code computes (see         *)
(* RoundsUp and BoostRounding).  Stored path scores are read back as the   *)
(* doubles nearest to h/100.  Queries are taken to succeed; a failed       *)
(* insert of the simulator or of the engine is an outcome of its step.     *)
(***************************************************************************)
EXTENDS Integers, Sequences, FiniteSets, TLC

VARIABLES
    pair,                 \* SpecScore: <<source_image, candidate_image>>
    pair_scores,          \* SpecScore: <<>> or <<score(A,B), score(B,A)>>
    all_images_metadata,  \* builder: rows returned by fetch_image_metadata
    next_source,          \* builder: index of the outer loop (line 99)
    navigation_paths,     \* builder: the list appended to at line 188
    image_metadata,       \* engine: table image_metadata, image_id -> row
    image_navigation_paths, \* engine: table image_navigation_paths, source -> row
    user_interactions,    \* engine, simulator: committed rows of user_interactions
    all_metadata_cache,   \* engine: the cache of main (line 270), image_id -> row
    first_call,           \* engine: <<user, source>> -> the first call made for the pair
    last_call,            \* engine: <<>> or <<the latest call>>
    recommendations,      \* engine: committed rows of the table recommendations
    all_image_ids,        \* simulator: the ids fetch_all_image_ids returned
    nav_paths,            \* simulator: the dict fetch_navigation_paths returned
    user_ids,             \* simulator: the users the loop of line 93 runs over
    transaction,          \* simulator: rows inserted and not yet committed
    user_index,           \* simulator: position of the loop of line 93
    session_length,       \* simulator: 0 between sessions
    step,                 \* simulator: iterations of the session done
    current_image_id,     \* simulator: 0 between sessions
    total_interactions_recorded,
    rolled_back,          \* simulator: users whose session met conn.rollback()
    last_step,            \* simulator: the kind of the step taken last
    image_files,          \* etl: sorted(image_files) of line 122, as image ids
    processed_count,      \* etl: line 120
    inserted_count,       \* etl: line 118
    error_count,          \* etl: line 119
    etl_transaction,      \* etl: rows upserted and not yet committed, image_id -> row
    saved_metadata,       \* etl: image_id -> the metadata insert_metadata_to_db saved
    conn_open,            \* etl: FALSE before the run and after conn.close()
    failed_path,          \* enrichment: index of the upsert that failed, 0 for none
    inserted_paths        \* enrichment: what insert_navigation_paths returned

score_vars == <<pair, pair_scores>>
nav_vars == <<all_images_metadata, next_source, navigation_paths>>
rec_vars == <<image_metadata, image_navigation_paths, all_metadata_cache,
              first_call, last_call, recommendations>>
sim_vars == <<all_image_ids, nav_paths, user_ids, transaction, user_index,
              session_length, step, current_image_id, total_interactions_recorded,
              rolled_back, last_step>>
etl_vars == <<image_files, processed_count, inserted_count, error_count,
              etl_transaction, saved_metadata, conn_open>>
enrich_vars == <<failed_path, inserted_paths>>
vars == <<pair, pair_scores, all_images_metadata, next_source, navigation_paths,
          image_metadata, image_navigation_paths, user_interactions,
          all_metadata_cache, first_call, last_call, recommendations,
          all_image_ids, nav_paths, user_ids, transaction, user_index,
          session_length, step, current_image_id, total_interactions_recorded,
          rolled_back, last_step,
          image_files, processed_count, inserted_count, error_count,
          etl_transaction, saved_metadata, conn_open,
          failed_path, inserted_paths>>

----------------------------------------------------------------------------
(* Bounds of the model *)

MaxTags == 10
MaxItems == 7

(* Program constants *)

PRIMARY_GARMENT_TYPES == {"t-shirt", "shorts", "dress", "skirt", "swimsuit"}
ACCESSORY_GARMENT_TYPES == {"sunglasses", "hat", "belt", "bag", "watch", "sandals"}
\* mutant: one suggestion more than the schema allows
MaxSuggestions_Six == 5 + 1
\* mutant: one suggestion fewer
MaxSuggestions_Four == 5 - 1

MaxSuggestions == 5
MinSelected == 3

----------------------------------------------------------------------------
(* Floats *)

F(hundredths) == [h |-> hundredths, u |-> 0]

FLt(a, b) == a.h < b.h \/ (a.h = b.h /\ a.u < b.u)

FMin(a, b) == IF FLt(b, a) THEN b ELSE a

Round2(a) == a.h

\* <<k, g, c>> for which the double ((0.1*k) + g/100) + c/100, summed in the
\* order of lines 63, 67/70, 82/85, lies one ulp above the double nearest to the
\* decimal sum.
RoundsUp ==
    { <<1, 20, 0>>, <<2, 10, 0>>, <<3, 0, 0>>, <<4, 20, 0>>, <<4, 20, 25>>,
      <<6, 0, 0>>, <<6, 0, 25>>, <<6, 10, 0>>, <<6, 10, 25>>, <<7, 0, 0>>,
      <<7, 0, 25>>, <<7, 20, 0>>, <<7, 20, 25>>, <<11, 10, 0>>, <<11, 10, 25>>,
      <<12, 0, 0>>, <<12, 0, 25>>, <<12, 20, 0>>, <<12, 20, 25>>, <<12, 10, 0>>,
      <<12, 10, 25>>, <<13, 10, 0>>, <<13, 10, 25>> }

\* k for which the double 0.1 + 0.1*k (line 139) lies one ulp above the
\* double nearest to the decimal sum.
VariationRoundsUp == {2, 6, 11, 12, 13}

----------------------------------------------------------------------------
(* calculate_similarity_score *)

SharedStyleTags(source_image, candidate_image) ==
    source_image.style_tags \cap candidate_image.style_tags

\* mutant: the source's garment type is looked up among the candidate's tags
GarmentRule_Reversed(source_image, candidate_image) ==
    IF source_image.garment_type = candidate_image.garment_type THEN 20
    ELSE IF source_image.garment_type \in candidate_image.style_tags THEN 10
    ELSE 0

GarmentRule(source_image, candidate_image) ==
    IF source_image.garment_type = candidate_image.garment_type THEN 20
    ELSE IF candidate_image.garment_type \in source_image.style_tags THEN 10
    ELSE 0

\* mutant: only the source-is-primary direction of the rule
AccessoryRule_OneWay(source_image, candidate_image) ==
    IF /\ source_image.garment_type \in PRIMARY_GARMENT_TYPES
       /\ candidate_image.garment_type \in ACCESSORY_GARMENT_TYPES
    THEN 25 ELSE 0

AccessoryRule(source_image, candidate_image) ==
    LET source_is_primary == source_image.garment_type \in PRIMARY_GARMENT_TYPES
        candidate_is_accessory == candidate_image.garment_type \in ACCESSORY_GARMENT_TYPES
        source_is_accessory == source_image.garment_type \in ACCESSORY_GARMENT_TYPES
        candidate_is_primary == candidate_image.garment_type \in PRIMARY_GARMENT_TYPES
    IN  IF source_is_primary /\ candidate_is_accessory THEN 25
        ELSE IF source_is_accessory /\ candidate_is_primary THEN 25
        ELSE 0

\* mutant: the score is returned unclipped
Clip_None(score) == score

\* min(score, 1.0), lines 91 and 163
Clip(score) == FMin(score, F(100))

SimilarityReasons(source_image, candidate_image) ==
    LET k == Cardinality(SharedStyleTags(source_image, candidate_image))
        g == GarmentRule(source_image, candidate_image)
        sp == source_image.garment_type \in PRIMARY_GARMENT_TYPES
    IN  (IF k > 0 THEN <<"Shared style_tags">> ELSE <<>>)
        \o (IF g = 20 THEN <<"Same garment_type">>
            ELSE IF g = 10 THEN <<"Candidate garment_type in source style_tags">>
            ELSE <<>>)
        \o (IF AccessoryRule(source_image, candidate_image) = 0 THEN <<>>
            ELSE IF sp THEN <<"Accessory complement: source is primary">>
            ELSE <<"Accessory complement: source is accessory">>)

\* lines 57-91: the score returned at line 91
SimilarityScore(source_image, candidate_image) ==
    LET k == Cardinality(SharedStyleTags(source_image, candidate_image))
        g == GarmentRule(source_image, candidate_image)
        c == AccessoryRule(source_image, candidate_image)
    IN  Clip([h |-> 10 * k + g + c,
              u |-> IF <<k, g, c>> \in RoundsUp THEN 1 ELSE 0])

calculate_similarity_score(source_image, candidate_image) ==
    [score |-> SimilarityScore(source_image, candidate_image),
     reasons |-> SimilarityReasons(source_image, candidate_image)]

----------------------------------------------------------------------------
(* generate_navigation_paths *)

\* the element of a one-element set; {Body(x) : x \in {e}} evaluates e once
Only(S) == CHOOSE e \in S : TRUE

Ids(images) == {images[i].image_id : i \in 1..Len(images)}

RECURSIVE InsertByScore(_, _, _)
\* x goes behind every element whose score is not lower
InsertByScore(x, sorted, i) ==
    IF i > Len(sorted) THEN Append(sorted, x)
    ELSE IF FLt(sorted[i].score, x.score)
         THEN SubSeq(sorted, 1, i - 1) \o <<x>> \o SubSeq(sorted, i, Len(sorted))
         ELSE InsertByScore(x, sorted, i + 1)

RECURSIVE SortedPrefix(_, _)
\* images[1..n] after list.sort(key=score, reverse=True): equal scores keep
\* their order (the sort is stable, also with reverse=True)
SortedPrefix(images, n) ==
    IF n = 0 THEN <<>>
    ELSE Only({InsertByScore(images[n], sorted, 1) : sorted \in {SortedPrefix(images, n - 1)}})

SortByScore(images) == SortedPrefix(images, Len(images))

\* mutant: a score of exactly 0.1 makes a candidate
CandidateEntry_AtThreshold(image_id, score) ==
    IF ~FLt(score, F(10))
    THEN <<[image_id |-> image_id, score |-> score, reason_extra |-> FALSE]>>
    ELSE <<>>

\* lines 106-112: the entry of a candidate whose score exceeds 0.1
CandidateEntry(image_id, score) ==
    IF FLt(F(10), score)
    THEN <<[image_id |-> image_id, score |-> score, reason_extra |-> FALSE]>>
    ELSE <<>>

RECURSIVE PotentialCandidates_NoSelfSkip(_, _, _)
\* mutant: the source itself is scored like any other item
PotentialCandidates_NoSelfSkip(source_image, images, i) ==
    IF i > Len(images) THEN <<>>
    ELSE CandidateEntry(images[i].image_id, SimilarityScore(source_image, images[i]))
         \o PotentialCandidates_NoSelfSkip(source_image, images, i + 1)

RECURSIVE PotentialCandidates(_, _, _)
\* lines 100-112: every other item whose score exceeds 0.1, in catalog order
PotentialCandidates(source_image, images, i) ==
    IF i > Len(images) THEN <<>>
    ELSE (IF source_image.image_id = images[i].image_id THEN <<>>
          ELSE CandidateEntry(images[i].image_id, SimilarityScore(source_image, images[i])))
         \o PotentialCandidates(source_image, images, i + 1)

RECURSIVE SelectTop(_, _, _)
\* lines 117-128: the first MaxSuggestions distinct ids
SelectTop(candidates, i, selected) ==
    IF i > Len(candidates) \/ Len(selected) >= MaxSuggestions THEN selected
    ELSE IF candidates[i].image_id \in Ids(selected)
         THEN SelectTop(candidates, i + 1, selected)
         ELSE Only({SelectTop(candidates, i + 1, extended) :
                      extended \in {Append(selected, candidates[i])}})

VariationScore(k) ==
    [h |-> 10 + 10 * k, u |-> IF k \in VariationRoundsUp THEN 1 ELSE 0]

\* lines 144-149: the first index holding the strictly lowest score
LowestScoreIdx(selected) ==
    CHOOSE idx \in 1..Len(selected) :
        /\ \A j \in 1..Len(selected) : ~FLt(selected[j].score, selected[idx].score)
        /\ \A j \in 1..(idx - 1) : FLt(selected[idx].score, selected[j].score)

RemoveAt(s, idx) == SubSeq(s, 1, idx - 1) \o SubSeq(s, idx + 1, Len(s))

\* lines 141-165 for one eligible candidate: the selection with the variation
\* edge appended, after dropping the lowest edge when the selection is full
\* and the variation score exceeds that edge's score; else the selection as is
WithVariation(selected, edge, variation_score, lowest_score_idx) ==
    IF Len(selected) >= MaxSuggestions
    THEN IF FLt(selected[lowest_score_idx].score, variation_score)
         THEN Append(RemoveAt(selected, lowest_score_idx), edge)
         ELSE selected
    ELSE Append(selected, edge)

VariationEdge(image_id, variation_score) ==
    [image_id |-> image_id, score |-> Clip(variation_score), reason_extra |-> TRUE]

MinSharedTags_One == 2 - 1

\* line 138: the shared style tags a variation candidate needs
MinSharedTags == 2

RECURSIVE StyleVariation(_, _, _, _)
RECURSIVE AfterCandidate(_, _, _, _, _)
\* lines 132-166: the scan over the catalog
StyleVariation(source_image, images, i, selected) ==
    IF i > Len(images) THEN selected
    ELSE IF \/ source_image.image_id = images[i].image_id
            \/ images[i].image_id \in Ids(selected)
    THEN StyleVariation(source_image, images, i + 1, selected)
    ELSE IF /\ source_image.gender # images[i].gender
            /\ Cardinality(SharedStyleTags(source_image, images[i])) >= MinSharedTags
    THEN Only({AfterCandidate(source_image, images, i, selected, updated) :
                 updated \in
                   {WithVariation(selected, VariationEdge(images[i].image_id, variation_score),
                                  variation_score,
                                  IF selected = <<>> THEN 0 ELSE LowestScoreIdx(selected)) :
                      variation_score \in
                        {VariationScore(Cardinality(SharedStyleTags(source_image, images[i])))}}})
    ELSE StyleVariation(source_image, images, i + 1, selected)

\* line 166: the scan stops once an appended edge fills the selection
AfterCandidate(source_image, images, i, selected, updated) ==
    IF updated # selected /\ Len(updated) >= MaxSuggestions THEN updated
    ELSE StyleVariation(source_image, images, i + 1, updated)

\* s[:n]
Take(s, n) == [i \in 1..(IF Len(s) < n THEN Len(s) ELSE n) |-> s[i]]

ImageById(images, id) == images[CHOOSE i \in 1..Len(images) : images[i].image_id = id]

\* mutant: the selection is not sorted again after the variation scan
FinalSort_None(selected) == selected

\* line 169
FinalSort(selected) == SortByScore(selected)

\* lines 130-166: the variation scan runs when fewer than 3 edges were
\* selected or when random.random() < 0.2 (try_variation)
MaybeVaried(source_image, images, try_variation, selected_next_images) ==
    IF Len(selected_next_images) < MinSelected \/ try_variation
    THEN StyleVariation(source_image, images, 1, selected_next_images)
    ELSE selected_next_images

\* lines 100-128 for one source: the primary edge set
PrimarySelection(source_image, images) ==
    Only({SelectTop(potential_candidates, 1, <<>>) :
            potential_candidates \in
              {SortByScore(unsorted) : unsorted \in {PotentialCandidates(source_image, images, 1)}}})

\* lines 99-170 for one source
FinalSelectedImages(source_image, images, try_variation) ==
    Only({Take(sorted, MaxSuggestions) :
            sorted \in
              {FinalSort(varied) :
                 varied \in
                   {MaybeVaried(source_image, images, try_variation, selected_next_images) :
                      selected_next_images \in {PrimarySelection(source_image, images)}}}})

\* lines 173-193: the NavigationPath built from the final selection
NavigationPath(source_image, images, final_selected_images) ==
    LET top == final_selected_images[1]
        top_reasons ==
            calculate_similarity_score(source_image, ImageById(images, top.image_id)).reasons
            \o (IF top.reason_extra THEN <<"Style variation">> ELSE <<>>)
    IN  [source_image_id |-> source_image.image_id,
         next_possible_images |->
             [i \in 1..Len(final_selected_images) |-> final_selected_images[i].image_id],
         path_scores |->
             [i \in 1..Len(final_selected_images) |-> Round2(final_selected_images[i].score)],
         reason |-> [top_candidate_id |-> top.image_id, top_reasons |-> top_reasons]]

----------------------------------------------------------------------------
(* Inputs *)

TagNames ==
    <<"casual", "beach", "boho", "chic", "sporty", "retro", "floral",
      "denim", "linen", "striped", "summer", "resort", "pastel", "neon">>

\* the first k style tags
TagPrefix(k) == {TagNames[i] : i \in 1..k}

\* style tags that are also garment type names (line 69)
GarmentTags == {"dress", "hat"}

GarmentTypes == {"t-shirt", "dress", "hat", "unknown"}

Genders == {"men", "women"}

Item(id, profile) ==
    [image_id |-> id, style_tags |-> profile.style_tags,
     garment_type |-> profile.garment_type, gender |-> profile.gender]

\* the items a pair is drawn from
ItemProfiles ==
    [style_tags : {TagPrefix(k) \cup x : k \in 0..MaxTags, x \in SUBSET GarmentTags},
     garment_type : GarmentTypes,
     gender : Genders]

\* the items a catalog is drawn from: untagged items (gender plays no part
\* without shared tags), an item with one tag (a score of exactly 0.1 against
\* tagged items of another garment type), lightly tagged items and heavily
\* tagged items
CatalogProfiles ==
    [style_tags : {TagPrefix(0)}, garment_type : {"t-shirt", "hat"}, gender : {"women"}]
    \cup [style_tags : {TagPrefix(1)}, garment_type : {"unknown"}, gender : {"women"}]
    \cup [style_tags : {TagPrefix(2)}, garment_type : {"t-shirt", "dress"}, gender : Genders]
    \cup [style_tags : {TagPrefix(MaxTags)}, garment_type : {"t-shirt"}, gender : Genders]

ScoreIdle == pair = <<>> /\ pair_scores = <<>>

NavIdle == all_images_metadata = <<>> /\ next_source = 1 /\ navigation_paths = <<>>

\* the function with no key: an empty table, an empty dict
Empty == [id \in {} |-> {}]

RecIdle ==
    /\ image_metadata = Empty
    /\ image_navigation_paths = Empty
    /\ all_metadata_cache = Empty
    /\ first_call = Empty
    /\ last_call = <<>>
    /\ recommendations = <<>>

LogIdle == user_interactions = <<>>

SimIdle ==
    /\ all_image_ids = <<>>
    /\ nav_paths = Empty
    /\ user_ids = <<>>
    /\ transaction = <<>>
    /\ user_index = 1
    /\ session_length = 0
    /\ step = 0
    /\ current_image_id = 0
    /\ total_interactions_recorded = 0
    /\ rolled_back = {}
    /\ last_step = "none"

EtlIdle ==
    /\ image_files = <<>>
    /\ processed_count = 0
    /\ inserted_count = 0
    /\ error_count = 0
    /\ etl_transaction = Empty
    /\ saved_metadata = Empty
    /\ conn_open = FALSE

EnrichIdle == failed_path = 0 /\ inserted_paths = 0

----------------------------------------------------------------------------
(* SpecScore: calculate_similarity_score applied to a pair, both ways *)

InitScore ==
    /\ \E a \in ItemProfiles, b \in ItemProfiles : pair = <<Item(1, a), Item(2, b)>>
    /\ pair_scores = <<>>
    /\ NavIdle
    /\ RecIdle
    /\ LogIdle
    /\ SimIdle
    /\ EtlIdle
    /\ EnrichIdle

ScorePair ==
    /\ pair # <<>>
    /\ pair_scores = <<>>
    /\ pair_scores' = <<calculate_similarity_score(pair[1], pair[2]).score,
                        calculate_similarity_score(pair[2], pair[1]).score>>
    /\ UNCHANGED <<pair, nav_vars, rec_vars, user_interactions, sim_vars, etl_vars, enrich_vars>>

NextScore == ScorePair

SpecScore == InitScore /\ [][NextScore]_vars

----------------------------------------------------------------------------
(* Spec: generate_navigation_paths over a catalog snapshot *)

\* A snapshot of at most MaxItems rows with distinct ids, listed in ascending
\* or in descending id order, each row drawn from one of two profiles.
Init ==
    /\ \E n \in 1..MaxItems, p1 \in CatalogProfiles, p2 \in CatalogProfiles,
          descending \in BOOLEAN :
          \E f \in [1..n -> {p1, p2}] :
              all_images_metadata =
                  [i \in 1..n |-> Item(IF descending THEN n + 1 - i ELSE i, f[i])]
    /\ next_source = 1
    /\ navigation_paths = <<>>
    /\ ScoreIdle
    /\ RecIdle
    /\ LogIdle
    /\ SimIdle
    /\ EtlIdle
    /\ EnrichIdle

\* one iteration of the loop at line 99
GenerateStep(try_variation) ==
    /\ next_source <= Len(all_images_metadata)
    /\ LET source_image == all_images_metadata[next_source]
       IN  \E final_selected_images \in
                  {FinalSelectedImages(source_image, all_images_metadata, try_variation)} :
               navigation_paths' =
                   IF final_selected_images # <<>>
                   THEN Append(navigation_paths,
                               NavigationPath(source_image, all_images_metadata,
                                              final_selected_images))
                   ELSE navigation_paths
    /\ next_source' = next_source + 1
    /\ UNCHANGED <<all_images_metadata, score_vars, rec_vars, user_interactions,
                   sim_vars, etl_vars, enrich_vars>>

Next == \E try_variation \in BOOLEAN : GenerateStep(try_variation)

Spec == Init /\ [][Next]_vars

----------------------------------------------------------------------------
(* recommendation_engine.py: generate_recommendations_for_pair *)

\* Bounds
MaxImages == 5
MaxHistory == 2
MaxLog == 1

\* sorted_candidates[:3]
TopN_Four == 3 + 1

TopN == 3

Range(s) == {s[i] : i \in 1..Len(s)}

\* <<h, u, unit, count, u'>>: the double (h, u) + unit/100 * count (lines 176,
\* 181, 186; the product is rounded first) lies u' units of 2^-55 away from
\* the double nearest to (h + unit * count)/100, for the sums of at most two
\* tag boosts, then one color boost, then the garment boost, on top of a
\* stored score of 0.2, 0.3 or 0.4 and with counts up to 3.  In the engine
\* the field u of a float counts units of 2^-55.
BoostRounding ==
    { <<20, 0, 5, 2, 2>>, <<20, 0, 5, 3, 2>>, <<20, 0, 10, 1, 2>>,
      <<30, 0, 10, 3, 4>>, <<30, 2, 5, 1, 2>>, <<30, 2, 5, 3, 2>>,
      <<30, 2, 10, 3, 4>>, <<40, 0, 10, 2, 4>>, <<40, 0, 10, 3, 4>>,
      <<40, 0, 20, 1, 4>>, <<45, 2, 20, 1, 4>>, <<60, 4, 5, 1, 4>>,
      <<60, 4, 5, 2, 4>>, <<60, 4, 5, 3, 4>>, <<60, 4, 10, 1, 4>>,
      <<60, 4, 10, 3, 4>>, <<65, 0, 20, 1, 4>>, <<65, 4, 20, 1, 4>>,
      <<70, 0, 5, 2, -4>>, <<70, 0, 20, 1, -4>>, <<70, 4, 5, 1, 4>>,
      <<70, 4, 5, 3, 4>>, <<70, 4, 10, 2, 4>>, <<70, 4, 20, 1, 4>>,
      <<75, 4, 20, 1, 8>>, <<80, 0, 5, 1, 4>>, <<80, 0, 5, 3, 4>>,
      <<90, 4, 5, 1, 8>>, <<90, 4, 5, 2, 8>>, <<90, 4, 5, 3, 8>>,
      <<95, 4, 20, 1, 8>>, <<95, 8, 20, 1, 8>>, <<100, 8, 20, 1, 8>>,
      <<105, 8, 20, 1, 8>>, <<115, 0, 20, 1, -8>> }

\* score += unit/100 * count
FAdd(score, unit, count) ==
    LET hits == {e \in BoostRounding :
                    /\ e[1] = score.h /\ e[2] = score.u
                    /\ e[3] = unit /\ e[4] = count}
    IN  [h |-> score.h + unit * count,
         u |-> IF hits = {} THEN 0 ELSE Only(hits)[5]]

\* the clicked rows of the user, as image ids in table order
ImageIds(rows) == [i \in 1..Len(rows) |-> rows[i].image_id]

ClickedImages(user_id) ==
    ImageIds(SelectSeq(user_interactions,
                       LAMBDA row : row.user_id = user_id /\ row.clicked))

\* the orders in which a query without ORDER BY can return its rows
AnyOrder(rows) ==
    {[i \in 1..Len(rows) |-> rows[p[i]]] : p \in Permutations(1..Len(rows))}

\* lines 84-92: the query of line 88 has no ORDER BY
get_user_clicked_history(user_id) == AnyOrder(ClickedImages(user_id))

\* lines 94-103
get_image_metadata_batch(image_ids) ==
    [id \in (image_ids \cap DOMAIN image_metadata) |-> image_metadata[id]]

\* dict.update
Update(cache, batch) ==
    [id \in (DOMAIN cache \cup DOMAIN batch) |->
        IF id \in DOMAIN batch THEN batch[id] ELSE cache[id]]

\* lines 105-116
get_navigation_path_for_source(source_image_id) ==
    IF /\ source_image_id \in DOMAIN image_navigation_paths
       /\ image_navigation_paths[source_image_id].next_possible_images # <<>>
       /\ image_navigation_paths[source_image_id].path_scores # <<>>
    THEN image_navigation_paths[source_image_id]
    ELSE [next_possible_images |-> <<>>, path_scores |-> <<>>]

\* lines 123-125
CacheAfterSource(cache, source_image_id) ==
    IF source_image_id \notin DOMAIN cache
    THEN Update(cache, get_image_metadata_batch({source_image_id}))
    ELSE cache

MissingLikedIds_All(cache, user_clicked_history) == Range(user_clicked_history)

\* line 136: missing_liked_meta_ids
MissingLikedIds(cache, user_clicked_history) ==
    Range(user_clicked_history) \ DOMAIN cache

\* lines 134-138
CacheAfterLiked(cache, user_clicked_history) ==
    Update(cache, get_image_metadata_batch(MissingLikedIds(cache, user_clicked_history)))

\* line 139
LikedItemsMetadataList(cache, user_clicked_history) ==
    Only({[i \in 1..Len(cached) |-> cache[cached[i]]] :
            cached \in {SelectSeq(user_clicked_history,
                                  LAMBDA img_id : img_id \in DOMAIN cache)}})

Placeholder == [kind |-> "complement", token |-> ""]

RECURSIVE CandidateScores(_, _, _)
\* lines 144-146: a dict keeps the place of the first entry of a key and the
\* value of the last one
CandidateScores(nav_candidates, nav_scores, n) ==
    IF n = 0 THEN <<>>
    ELSE LET data == [image_id |-> nav_candidates[n], score |-> F(nav_scores[n]),
                      reasons |-> <<Placeholder>>]
         IN  Only({IF \E i \in 1..Len(before) : before[i].image_id = nav_candidates[n]
                   THEN [i \in 1..Len(before) |->
                            IF before[i].image_id = nav_candidates[n] THEN data
                            ELSE before[i]]
                   ELSE Append(before, data) :
                      before \in {CandidateScores(nav_candidates, nav_scores, n - 1)}})

\* mutant: clicked items stay among the candidates
FilteredCandidates_KeepClicked(candidate_scores, source_image_id, user_clicked_history) ==
    SelectSeq(candidate_scores, LAMBDA data : data.image_id # source_image_id)

\* lines 149-155
FilteredCandidates(candidate_scores, source_image_id, user_clicked_history) ==
    SelectSeq(candidate_scores,
              LAMBDA data : /\ data.image_id # source_image_id
                            /\ data.image_id \notin Range(user_clicked_history))

\* mutant: the candidates' rows are taken from the cache as it is
CacheAfterCandidates_NoFetch(cache, filtered_candidates) == cache

\* line 158: missing_candidate_meta_ids
MissingCandidateIds(cache, filtered_candidates) ==
    {filtered_candidates[i].image_id : i \in 1..Len(filtered_candidates)} \ DOMAIN cache

\* lines 158-160
CacheAfterCandidates(cache, filtered_candidates) ==
    Update(cache, get_image_metadata_batch(MissingCandidateIds(cache, filtered_candidates)))

Occurrences(s, x) == Cardinality({i \in 1..Len(s) : s[i] = x})

RECURSIVE CounterOf(_, _, _, _)
\* lines 164-165: Counter(...)[key] over the field (a list) of the liked items
CounterOf(liked_items_metadata_list, field, key, n) ==
    IF n = 0 THEN 0
    ELSE Occurrences(liked_items_metadata_list[n][field], key)
         + CounterOf(liked_items_metadata_list, field, key, n - 1)

\* line 166: the garment types of the liked items
CommonGarmentTypes(liked_items_metadata_list) ==
    {liked_items_metadata_list[i].garment_type : i \in 1..Len(liked_items_metadata_list)}

RECURSIVE BoostList(_, _, _, _, _, _, _)
\* lines 174-177 (field style_tags, 0.1) and 179-182 (dominant_colors, 0.05):
\* one pass over the candidate's list, in list order
BoostList(data, values, i, liked_items_metadata_list, field, unit, kind) ==
    IF i > Len(values) THEN data
    ELSE LET count == CounterOf(liked_items_metadata_list, field, values[i],
                                Len(liked_items_metadata_list))
         IN  BoostList(IF count > 0
                       THEN [score |-> FAdd(data.score, unit, count),
                             boost_reasons |->
                                 Append(data.boost_reasons,
                                        [kind |-> kind, token |-> values[i]])]
                       ELSE data,
                       values, i + 1, liked_items_metadata_list, field, unit, kind)

\* lines 184-187
BoostGarment(data, candidate_meta, liked_items_metadata_list, source_image_meta) ==
    IF /\ candidate_meta.garment_type \in CommonGarmentTypes(liked_items_metadata_list)
       /\ candidate_meta.garment_type # source_image_meta.garment_type
    THEN [score |-> FAdd(data.score, 20, 1),
          boost_reasons |->
              Append(data.boost_reasons,
                     [kind |-> "type", token |-> candidate_meta.garment_type])]
    ELSE data

\* the strings of the reasons in ascending order (str comparison):
\* "This item ..." < "You previously liked '...' type items." <
\* "You previously liked items with similar '...' color/style.", and within
\* one shape by the quoted token, "(" before letters
TokenOrder == <<"", "(255,0,0)", "beach", "casual", "dress", "t-shirt">>

ReasonKey(reason) ==
    LET shape == IF reason.kind = "complement" THEN 0
                 ELSE IF reason.kind = "type" THEN 1 ELSE 2
        token == CHOOSE i \in 1..Len(TokenOrder) : TokenOrder[i] = reason.token
    IN  100 * shape + 10 * token + (IF reason.kind = "style" THEN 1 ELSE 0)

RECURSIVE SortedReasons(_)
\* line 196: sorted(list(set(reasons)))
SortedReasons(reasons) ==
    IF reasons = {} THEN <<>>
    ELSE LET least == CHOOSE r \in reasons : \A q \in reasons : ReasonKey(r) <= ReasonKey(q)
         IN  <<least>> \o SortedReasons(reasons \ {least})

MergedReasons_Append(reasons, boost_reasons) ==
    IF boost_reasons = <<>> THEN reasons
    ELSE SortedReasons(Range(reasons \o boost_reasons))

\* lines 189-196
MergedReasons(reasons, boost_reasons) ==
    IF boost_reasons = <<>> THEN reasons
    ELSE SortedReasons(Range(IF Placeholder \in Range(reasons)
                             THEN boost_reasons
                             ELSE reasons \o boost_reasons))

\* the candidate's entry after its boosts
BoostedData(data, boosted) ==
    [image_id |-> data.image_id, score |-> boosted.score,
     reasons |-> MergedReasons(data.reasons, boosted.boost_reasons)]

\* lines 168-196 for one candidate
Boosted(data, cache, liked_items_metadata_list, source_image_meta) ==
    IF data.image_id \notin DOMAIN cache THEN data
    ELSE LET candidate_meta == cache[data.image_id]
             start == [score |-> data.score, boost_reasons |-> <<>>]
             tags == BoostList(start, candidate_meta.style_tags, 1,
                               liked_items_metadata_list, "style_tags", 10, "style")
             colors == BoostList(tags, candidate_meta.dominant_colors, 1,
                                 liked_items_metadata_list, "dominant_colors", 5, "color")
         IN  Only({BoostedData(data, boosted) :
                     boosted \in {BoostGarment(colors, candidate_meta,
                                               liked_items_metadata_list,
                                               source_image_meta)}})

\* lines 163-196
BoostedCandidates(filtered_candidates, cache, liked_items_metadata_list, source_image_meta) ==
    IF liked_items_metadata_list = <<>> THEN filtered_candidates
    ELSE [i \in 1..Len(filtered_candidates) |->
             Boosted(filtered_candidates[i], cache, liked_items_metadata_list,
                     source_image_meta)]

\* lines 203-209: the first three entries of the ranking; the reasons of an
\* entry joined by ". " are kept as the list that is joined
TopOf(sorted_candidates, top) ==
    [recommended_ids |-> [i \in 1..Len(top) |-> top[i].image_id],
     reasons |-> [i \in 1..Len(top) |-> top[i].reasons],
     sorted_candidates |-> sorted_candidates]

\* lines 201-209: the ranking (kept with the result, the code drops it) and
\* its first three entries
TopRecommendations(boosted_candidates) ==
    Only({TopOf(sorted_candidates, Take(sorted_candidates, TopN)) :
            sorted_candidates \in {SortByScore(boosted_candidates)}})

\* line 145: zip stops at the shorter list
Zipped(nav) ==
    CandidateScores(nav.next_possible_images, nav.path_scores,
                    IF Len(nav.next_possible_images) < Len(nav.path_scores)
                    THEN Len(nav.next_possible_images) ELSE Len(nav.path_scores))

\* lines 158-209, from the filtered candidates on
RankedFrom(source_image_id, liked_items_metadata_list, filtered_candidates, cache_candidates) ==
    Only({[recommended_ids |-> top.recommended_ids, reasons |-> top.reasons,
           sorted_candidates |-> top.sorted_candidates,
           cache |-> cache_candidates] :
            top \in {TopRecommendations(
                        BoostedCandidates(filtered_candidates, cache_candidates,
                                          liked_items_metadata_list,
                                          cache_candidates[source_image_id]))}})

\* lines 133-209, for a source whose row is in the cache
RecommendFrom(source_image_id, user_clicked_history, cache_liked) ==
    Only({RankedFrom(source_image_id,
                     LikedItemsMetadataList(cache_liked, user_clicked_history),
                     filtered_candidates,
                     CacheAfterCandidates(cache_liked, filtered_candidates)) :
            filtered_candidates \in
              {FilteredCandidates(
                   Only({Zipped(nav) :
                           nav \in {get_navigation_path_for_source(source_image_id)}}),
                   source_image_id, user_clicked_history)}})

\* a call of get_image_metadata_batch: the ids asked for and the keys the
\* cache holds at that time; no call is made for an empty list (lines 96, 137, 159)
Query(image_ids, cache) ==
    IF image_ids = {} THEN <<>>
    ELSE <<[image_ids |-> image_ids, cached |-> DOMAIN cache]>>

\* lines 123-160: the calls of get_image_metadata_batch one call makes, in order
Queries(source_image_id, user_clicked_history, cache) ==
    LET cache_source == CacheAfterSource(cache, source_image_id)
        cache_liked == CacheAfterLiked(cache_source, user_clicked_history)
        filtered_candidates ==
            FilteredCandidates(Zipped(get_navigation_path_for_source(source_image_id)),
                               source_image_id, user_clicked_history)
    IN  Query({source_image_id} \ DOMAIN cache, cache)
        \o (IF source_image_id \notin DOMAIN cache_source THEN <<>>
            ELSE Query(MissingLikedIds(cache_source, user_clicked_history), cache_source)
                 \o Query(MissingCandidateIds(cache_liked, filtered_candidates),
                          cache_liked))

\* lines 118-209: the value returned and the cache left behind
SkippedPair_StoredPath(source_image_id, cache) ==
    LET top == Take(get_navigation_path_for_source(source_image_id).next_possible_images,
                    TopN)
    IN  [recommended_ids |-> top, reasons |-> [i \in 1..Len(top) |-> <<Placeholder>>],
         sorted_candidates |-> <<>>, cache |-> cache]

\* lines 128-130: the source has no metadata, the pair is skipped
SkippedPair(source_image_id, cache) ==
    [recommended_ids |-> <<>>, reasons |-> <<>>, sorted_candidates |-> <<>>,
     cache |-> cache]

generate_recommendations_for_pair(source_image_id, user_clicked_history, cache) ==
    Only({IF source_image_id \notin DOMAIN cache_source
          THEN SkippedPair(source_image_id, cache_source)
          ELSE RecommendFrom(source_image_id, user_clicked_history,
                             CacheAfterLiked(cache_source, user_clicked_history)) :
            cache_source \in {CacheAfterSource(cache, source_image_id)}})

----------------------------------------------------------------------------
(* SpecRec: calls of generate_recommendations_for_pair over one snapshot of
   the tables, sharing the cache of a batch *)

TARGET_USER_IDS == {"user001"}

\* the rows image_metadata is drawn from
MetadataProfiles ==
    { [style_tags |-> <<"casual", "beach">>, dominant_colors |-> <<"(255,0,0)">>,
       garment_type |-> "dress"],
      [style_tags |-> <<"casual">>, dominant_colors |-> <<>>,
       garment_type |-> "t-shirt"] }

\* the source items of the calls
Sources == {1, 2}

\* the items of the interaction rows
HistoryImages == {2, 3}

\* the edge lists the row of source 1 is drawn from
NavTargets == { <<4, 3, 2>>, <<1, 2, 3, 4, 5>> }

\* stored scores, non-increasing
NavScores == { <<40, 30, 30, 20, 20>>, <<30, 30, 30, 30, 30>> }

NavRows ==
    { [next_possible_images |-> Take(targets, MaxImages),
       path_scores |-> Take(scores, Len(targets))] :
          targets \in NavTargets, scores \in NavScores }

\* image 2 is only ever clicked, image 3 is clicked or just viewed
InteractionRows ==
    { row \in [user_id : TARGET_USER_IDS, image_id : HistoryImages, clicked : BOOLEAN] :
        row.image_id = 2 => row.clicked }

RECURSIVE SeqsUpTo(_, _)
\* the sequences over S of length at most n
SeqsUpTo(S, n) ==
    IF n = 0 THEN {<<>>}
    ELSE LET shorter == SeqsUpTo(S, n - 1)
         IN  shorter \cup {Append(s, x) : s \in shorter, x \in S}

InitRec ==
    /\ \E absent \in {{}, {1}, {2}} :
           image_metadata \in [(1..MaxImages) \ absent -> MetadataProfiles]
    /\ \E row \in NavRows, with_row \in BOOLEAN :
           image_navigation_paths =
               [source \in (IF with_row THEN {1, 2} ELSE {2}) |->
                   IF source = 1 THEN row
                   ELSE [next_possible_images |-> <<3, 4, 1>>,
                         path_scores |-> <<30, 30, 20>>]]
    /\ user_interactions \in SeqsUpTo(InteractionRows, MaxHistory)
    /\ all_metadata_cache = Empty
    /\ first_call = Empty
    /\ last_call = <<>>
    /\ recommendations = <<>>
    /\ ScoreIdle
    /\ NavIdle
    /\ SimIdle
    /\ EtlIdle
    /\ EnrichIdle

\* main, lines 272-275: one call of the loop
\* insert_recommendations, lines 212-230: nothing is written for an empty
\* list; a failed INSERT is rolled back and leaves the table as it was
insert_recommendations(rows, user_id, source_image_id, recommended_ids, reasons_text, inserted) ==
    IF recommended_ids = <<>> THEN rows
    ELSE IF inserted
         THEN Append(rows, [user_id |-> user_id, source_image_id |-> source_image_id,
                            recommended_images |-> recommended_ids,
                            reasoning |-> reasons_text])
         ELSE rows

\* main, lines 272-283: one iteration of the loop over input_pairs
GenerateRecommendations(user_id, source_image_id) ==
    /\ Len(recommendations) < MaxLog
    /\ \E user_clicked_history \in get_user_clicked_history(user_id) :
      \E returned \in {generate_recommendations_for_pair(
                          source_image_id, user_clicked_history, all_metadata_cache)} :
        LET call == [user_id |-> user_id, source_image_id |-> source_image_id,
                     user_clicked_history |-> user_clicked_history,
                     cache_before |-> DOMAIN all_metadata_cache,
                     recommended_ids |-> returned.recommended_ids,
                     reasons |-> returned.reasons,
                     sorted_candidates |-> returned.sorted_candidates,
                     queries |-> Queries(source_image_id, user_clicked_history,
                                         all_metadata_cache)]
        IN  /\ all_metadata_cache' = returned.cache
            /\ last_call' = <<call>>
            /\ first_call' =
                   IF <<user_id, source_image_id>> \in DOMAIN first_call THEN first_call
                   ELSE [key \in DOMAIN first_call \cup {<<user_id, source_image_id>>} |->
                            IF key = <<user_id, source_image_id>> THEN call
                            ELSE first_call[key]]
            /\ \E inserted \in (IF returned.recommended_ids # <<>> THEN BOOLEAN
                                                                     ELSE {FALSE}) :
                   recommendations' =
                       IF returned.recommended_ids # <<>>
                       THEN insert_recommendations(recommendations, user_id,
                                source_image_id, returned.recommended_ids,
                                returned.reasons, inserted)
                       ELSE recommendations
            /\ UNCHANGED <<image_metadata, image_navigation_paths, user_interactions,
                           score_vars, nav_vars, sim_vars, etl_vars, enrich_vars>>

\* main, line 270: the next run of main starts with an empty cache
NewBatch ==
    /\ all_metadata_cache # Empty
    /\ all_metadata_cache' = Empty
    /\ UNCHANGED <<image_metadata, image_navigation_paths, user_interactions,
                   first_call, last_call, recommendations, score_vars, nav_vars,
                   sim_vars, etl_vars, enrich_vars>>

NextRec ==
    \/ \E user_id \in TARGET_USER_IDS, source_image_id \in Sources :
           GenerateRecommendations(user_id, source_image_id)
    \/ NewBatch

SpecRec == InitRec /\ [][NextRec]_vars

----------------------------------------------------------------------------
(* user_simulator.py: simulate_user_sessions *)

\* Bounds: the users simulated, the catalog items, and their sum
MaxUsers == 2
MaxCatalog == 2
MaxLoad == 3

USER_IDS ==
    <<"user001", "user002", "user003", "user004", "user005", "user006",
      "user007", "user008", "user009", "user010", "user011", "user012",
      "user013", "user014", "user015">>

\* random.randint(3, 7)
MinSession == 3
MaxSession == 7

\* mutant: the entry event is not a click
FirstClicked_No == FALSE

\* line 99: the entry event is recorded with clicked = True
FirstClicked == TRUE

\* lines 70-82, on success: the row joins the open transaction (the
\* timestamp is the place in the sequence)
insert_user_interaction(rows, user_id, image_id, clicked) ==
    Append(rows, [user_id |-> user_id, image_id |-> image_id, clicked |-> clicked])

\* mutant: a followed step that is not clicked records nothing
FollowedInteraction_ClickOnly(rows, user_id, viewed_image_id, clicked) ==
    IF clicked THEN insert_user_interaction(rows, user_id, viewed_image_id, clicked)
    ELSE rows

\* line 116: the followed step records the viewed item, clicked or not
FollowedInteraction(rows, user_id, viewed_image_id, clicked) ==
    insert_user_interaction(rows, user_id, viewed_image_id, clicked)

\* the graphs fetch_navigation_paths returns for a catalog: no row, or every
\* item pointing at the others (rows with an empty list are not fetched,
\* line 58)
NavPathsOf(image_ids) ==
    {Empty} \cup
    (IF Len(image_ids) < 2 THEN {}
     ELSE {[source \in Range(image_ids) |->
               SelectSeq(image_ids, LAMBDA id : id # source)],
           [source \in {image_ids[1]} |->
               SelectSeq(image_ids, LAMBDA id : id # source)]})

InitSim ==
    /\ \E users \in 1..MaxUsers, images \in 1..MaxCatalog :
           /\ users + images <= MaxLoad
           /\ user_ids = Take(USER_IDS, users)
           /\ all_image_ids = [i \in 1..images |-> i]
    /\ nav_paths \in NavPathsOf(all_image_ids)
    /\ user_interactions = <<>>
    /\ transaction = <<>>
    /\ user_index = 1
    /\ session_length = 0
    /\ step = 0
    /\ current_image_id = 0
    /\ total_interactions_recorded = 0
    /\ rolled_back = {}
    /\ last_step = "none"
    /\ ScoreIdle
    /\ NavIdle
    /\ RecIdle
    /\ EtlIdle
    /\ EnrichIdle

\* the loop of line 93 moves to the next user
NextUser ==
    /\ user_index' = user_index + 1
    /\ session_length' = 0
    /\ step' = 0
    /\ current_image_id' = 0
    /\ transaction' = <<>>

RolledBack_NoRollback ==
    /\ rolled_back' = rolled_back \cup {user_ids[user_index]}
    /\ user_index' = user_index + 1
    /\ session_length' = 0
    /\ step' = 0
    /\ current_image_id' = 0
    /\ UNCHANGED <<transaction, user_interactions, total_interactions_recorded>>

\* conn.rollback() and the end of the user's session: continue (line 103),
\* or break and the commit of line 143, which has nothing to commit
RolledBack ==
    /\ rolled_back' = rolled_back \cup {user_ids[user_index]}
    /\ NextUser
    /\ UNCHANGED <<user_interactions, total_interactions_recorded>>

\* a step whose insert succeeded: the loop of line 105 goes on, or it ends
\* and line 143 commits the user's rows
Recorded(recorded, current) ==
    /\ total_interactions_recorded' = total_interactions_recorded + 1
    /\ IF step + 1 < session_length
       THEN /\ transaction' = recorded
            /\ step' = step + 1
            /\ current_image_id' = current
            /\ UNCHANGED <<user_interactions, user_index, session_length>>
       ELSE /\ user_interactions' = user_interactions \o recorded
            /\ NextUser
    /\ UNCHANGED rolled_back

\* lines 94-103: the session length, the entry item and the entry event
StartSession(length, image_id, inserted) ==
    /\ user_index <= Len(user_ids)
    /\ session_length = 0
    /\ last_step' = "entry"
    /\ IF inserted
       THEN /\ transaction' = insert_user_interaction(
                                  transaction, user_ids[user_index], image_id, FirstClicked)
            /\ total_interactions_recorded' = total_interactions_recorded + 1
            /\ session_length' = length
            /\ step' = 1
            /\ current_image_id' = image_id
            /\ UNCHANGED <<user_interactions, user_index, rolled_back>>
       ELSE RolledBack
    /\ UNCHANGED <<all_image_ids, nav_paths, user_ids, score_vars, nav_vars, rec_vars,
                   etl_vars, enrich_vars>>

\* lines 108-133: action_choice < 0.85 and the current item has a path
FollowPath(viewed_image_id, clicked, bounce_image_id, inserted) ==
    /\ session_length > 0
    /\ current_image_id \in DOMAIN nav_paths
    /\ IF nav_paths[current_image_id] # <<>>
       THEN /\ viewed_image_id \in Range(nav_paths[current_image_id])
            /\ last_step' = IF clicked THEN "followed" ELSE "bounce"
            /\ IF inserted
               THEN Recorded(FollowedInteraction(transaction, user_ids[user_index],
                                                 viewed_image_id, clicked),
                             IF clicked THEN viewed_image_id ELSE bounce_image_id)
               ELSE RolledBack
       ELSE /\ viewed_image_id = bounce_image_id
            /\ last_step' = "skip"
            /\ IF inserted
               THEN Recorded(insert_user_interaction(transaction, user_ids[user_index],
                                                     bounce_image_id, clicked),
                             bounce_image_id)
               ELSE RolledBack
    /\ UNCHANGED <<all_image_ids, nav_paths, user_ids, score_vars, nav_vars, rec_vars,
                   etl_vars, enrich_vars>>

SkipCurrent_OnlyIfClicked(image_id, clicked) ==
    IF clicked THEN image_id ELSE current_image_id

\* line 135: the item picked becomes the current item before the event is
\* recorded, whatever clicked is
SkipCurrent(image_id, clicked) == image_id

\* lines 134-141: the random skip
RandomSkip(image_id, clicked, inserted) ==
    /\ session_length > 0
    /\ last_step' = "skip"
    /\ IF inserted
       THEN Recorded(insert_user_interaction(transaction, user_ids[user_index],
                                             image_id, clicked),
                     SkipCurrent(image_id, clicked))
       ELSE RolledBack
    /\ UNCHANGED <<all_image_ids, nav_paths, user_ids, score_vars, nav_vars, rec_vars,
                   etl_vars, enrich_vars>>

NextSim ==
    \/ \E length \in MinSession..MaxSession, image_id \in Range(all_image_ids),
          inserted \in BOOLEAN :
           StartSession(length, image_id, inserted)
    \/ \E viewed_image_id \in 1..MaxCatalog, clicked \in BOOLEAN,
          bounce_image_id \in Range(all_image_ids), inserted \in BOOLEAN :
           FollowPath(viewed_image_id, clicked, bounce_image_id, inserted)
    \/ \E image_id \in Range(all_image_ids), clicked \in BOOLEAN, inserted \in BOOLEAN :
           RandomSkip(image_id, clicked, inserted)

SpecSim == InitSim /\ [][NextSim]_vars

----------------------------------------------------------------------------
(* etl.py: process_images_and_store_metadata *)

MaxFiles == 3

\* what one iteration of the loop of line 122 can meet: get_metadata returns
\* None (line 127) or raises (line 149), or insert_metadata_to_db returns
\* True or False
EtlOutcomes == {"none", "raised", "saved", "failed"}

\* lines 67-88: the upsert, executed on the open transaction
insert_metadata_to_db(rows, metadata_dict) ==
    Update(rows, [id \in {metadata_dict.image_id} |-> metadata_dict.row])

\* lines 101-120: the table as earlier runs left it, the files found, and a
\* connection whose transaction holds nothing
InitEtl ==
    /\ \E files \in 1..MaxFiles : image_files = [i \in 1..files |-> i]
    /\ \E present \in {{}, {1}, {MaxFiles}} :
           image_metadata \in [present -> MetadataProfiles]
    /\ image_navigation_paths = Empty
    /\ all_metadata_cache = Empty
    /\ first_call = Empty
    /\ last_call = <<>>
    /\ recommendations = <<>>
    /\ processed_count = 0
    /\ inserted_count = 0
    /\ error_count = 0
    /\ etl_transaction = Empty
    /\ saved_metadata = Empty
    /\ conn_open = TRUE
    /\ ScoreIdle
    /\ NavIdle
    /\ LogIdle
    /\ SimIdle
    /\ EnrichIdle

\* lines 122-151: one iteration of the loop over sorted(image_files);
\* conn.rollback() (line 147) ends the transaction the connection has open
ProcessImage(row, outcome) ==
    /\ conn_open
    /\ processed_count < Len(image_files)
    /\ processed_count' = processed_count + 1
    /\ LET metadata == [image_id |-> image_files[processed_count + 1], row |-> row]
       IN  CASE outcome = "saved" ->
                  /\ etl_transaction' = insert_metadata_to_db(etl_transaction, metadata)
                  /\ saved_metadata' = insert_metadata_to_db(saved_metadata, metadata)
                  /\ inserted_count' = inserted_count + 1
                  /\ UNCHANGED error_count
             [] outcome = "failed" ->
                  /\ error_count' = error_count + 1
                  /\ etl_transaction' = Empty
                  /\ UNCHANGED <<saved_metadata, inserted_count>>
             [] OTHER ->
                  /\ error_count' = error_count + 1
                  /\ UNCHANGED <<etl_transaction, saved_metadata, inserted_count>>
    /\ UNCHANGED <<image_files, conn_open, score_vars, nav_vars, rec_vars,
                   user_interactions, sim_vars, enrich_vars>>

\* lines 154-168: conn.commit() when something was inserted, then conn.close(),
\* which drops what was not committed
CommitAndClose ==
    /\ conn_open
    /\ processed_count = Len(image_files)
    /\ image_metadata' = IF inserted_count > 0
                         THEN Update(image_metadata, etl_transaction)
                         ELSE image_metadata
    /\ etl_transaction' = Empty
    /\ conn_open' = FALSE
    /\ UNCHANGED <<image_files, processed_count, inserted_count, error_count,
                   saved_metadata, image_navigation_paths, all_metadata_cache,
                   first_call, last_call, recommendations, score_vars, nav_vars,
                   user_interactions, sim_vars, enrich_vars>>

NextEtl ==
    \/ \E row \in MetadataProfiles, outcome \in EtlOutcomes : ProcessImage(row, outcome)
    \/ CommitAndClose

SpecEtl == InitEtl /\ [][NextEtl]_vars

----------------------------------------------------------------------------
(* semantic_enrichment.py: main, a build followed by insert_navigation_paths *)

MaxSnapshot == 3

\* the items a catalog snapshot is drawn from: a women's item with one tag
\* and a lightly tagged men's t-shirt
SnapshotProfiles ==
    {profile \in CatalogProfiles :
        \/ profile.style_tags = TagPrefix(1)
        \/ /\ profile.style_tags = TagPrefix(2)
           /\ profile.garment_type = "t-shirt"
           /\ profile.gender = "men"}

\* what fetch_image_metadata can return (lines 41-53)
Snapshots ==
    UNION {{[i \in 1..n |-> Item(i, f[i])] : f \in [1..n -> SnapshotProfiles]} :
             n \in 1..MaxSnapshot}

RECURSIVE GeneratePathsFrom(_, _, _)
\* the loop of line 99 from source i on
GeneratePathsFrom(images, tries, i) ==
    IF i > Len(images) THEN <<>>
    ELSE LET final_selected_images == FinalSelectedImages(images[i], images, tries[i])
         IN  (IF final_selected_images # <<>>
              THEN <<NavigationPath(images[i], images, final_selected_images)>>
              ELSE <<>>)
             \o GeneratePathsFrom(images, tries, i + 1)

\* lines 93-195
generate_navigation_paths(images, tries) == GeneratePathsFrom(images, tries, 1)

RECURSIVE Upserted(_, _, _)
\* the upserts of the first n paths, executed in order (ON CONFLICT DO UPDATE)
Upserted(rows, navigation_paths_data, n) ==
    IF n = 0 THEN rows
    ELSE Update(Upserted(rows, navigation_paths_data, n - 1),
                [id \in {navigation_paths_data[n].source_image_id} |->
                    navigation_paths_data[n]])

\* lines 197-224: the table after the call; the batch runs in one transaction
\* that is committed after the last upsert and rolled back at a failure
insert_navigation_paths(rows, navigation_paths_data, failed) ==
    IF navigation_paths_data = <<>> THEN rows
    ELSE IF failed = 0 THEN Upserted(rows, navigation_paths_data, Len(navigation_paths_data))
    ELSE rows

\* lines 197-224: the value returned
InsertReturned(navigation_paths_data, failed) ==
    IF navigation_paths_data = <<>> THEN 0
    ELSE IF failed = 0 THEN Len(navigation_paths_data)
    ELSE 0 - 1

InitEnrich ==
    /\ image_navigation_paths = Empty
    /\ image_metadata = Empty
    /\ all_metadata_cache = Empty
    /\ first_call = Empty
    /\ last_call = <<>>
    /\ recommendations = <<>>
    /\ failed_path = 0
    /\ inserted_paths = 0
    /\ ScoreIdle
    /\ NavIdle
    /\ LogIdle
    /\ SimIdle
    /\ EtlIdle

\* main, lines 226-260: one run over the snapshot the catalog has now
EnrichmentRun(snapshot, tries, failed) ==
    /\ \E built \in {generate_navigation_paths(snapshot, tries)} :
           /\ failed <= Len(built)
           /\ all_images_metadata' = snapshot
           /\ next_source' = Len(snapshot) + 1
           /\ navigation_paths' = built
           /\ failed_path' = failed
           /\ inserted_paths' = InsertReturned(built, failed)
           /\ image_navigation_paths' =
                  insert_navigation_paths(image_navigation_paths, built, failed)
    /\ UNCHANGED <<image_metadata, all_metadata_cache, first_call, last_call,
                   recommendations, score_vars, user_interactions, sim_vars, etl_vars>>

NextEnrich ==
    \E snapshot \in Snapshots, tries \in [1..MaxSnapshot -> BOOLEAN],
       failed \in 0..MaxSnapshot :
        EnrichmentRun(snapshot, tries, failed)

SpecEnrich == InitEnrich /\ [][NextEnrich]_vars

----------------------------------------------------------------------------
(* Helpers of the properties *)

Paths == {navigation_paths[i] : i \in 1..Len(navigation_paths)}

SourceOf(path) == ImageById(all_images_metadata, path.source_image_id)

Targets(path) == {path.next_possible_images[i] : i \in 1..Len(path.next_possible_images)}

\* the primary edge set of a source: lines 100-128
PrimaryEdges(source_image) == PrimarySelection(source_image, all_images_metadata)

\* the path holds an edge that the variation scan put there
HasVariationEdge(path) == \E t \in Targets(path) : t \notin Ids(PrimaryEdges(SourceOf(path)))

\* the calls on record
Calls == Range(last_call) \cup {first_call[key] : key \in DOMAIN first_call}

\* the ids of the user's clicked rows
ClickedIds(user_id) == Range(ClickedImages(user_id))

\* the committed rows of a user
CommittedRows(user_id) ==
    SelectSeq(user_interactions, LAMBDA row : row.user_id = user_id)

\* the users whose session has ended
ProcessedUsers == {user_ids[i] : i \in 1..(user_index - 1)}

\* the sources the loop of line 99 has dealt with
DoneSources == {all_images_metadata[i] : i \in 1..(next_source - 1)}

\* the other items that score above 0.1 against the source
ScoringAbove(source_image) ==
    {all_images_metadata[i].image_id : i \in
        {j \in 1..Len(all_images_metadata) :
            /\ all_images_metadata[j].image_id # source_image.image_id
            /\ FLt(F(10), SimilarityScore(source_image, all_images_metadata[j]))}}

\* the edge targets stored for the source, {} without a path
StoredTargets(source_image) ==
    UNION {Targets(path) : path \in {p \in Paths : p.source_image_id = source_image.image_id}}

\* the stored score of the edge from the source to the item
BaseScore(source_image_id, image_id) ==
    LET nav == get_navigation_path_for_source(source_image_id)
        i == CHOOSE j \in 1..Len(nav.next_possible_images) :
                 /\ nav.next_possible_images[j] = image_id
                 /\ \A k \in (j + 1)..Len(nav.next_possible_images) :
                        nav.next_possible_images[k] # image_id
    IN  nav.path_scores[i]

\* the items the user has clicked, each once, that have a metadata row
LikedItems(user_id) == ClickedIds(user_id) \cap DOMAIN image_metadata

\* the number of liked items whose list (style_tags, dominant_colors) holds the key
LikedItemsCarrying(user_id, field, key) ==
    Cardinality({id \in LikedItems(user_id) : key \in Range(image_metadata[id][field])})

RECURSIVE BoostPerLikedItem(_, _, _, _, _)
\* unit x (number of liked items carrying the value), summed over the values
BoostPerLikedItem(user_id, values, n, field, unit) ==
    IF n = 0 THEN 0
    ELSE unit * LikedItemsCarrying(user_id, field, values[n])
         + BoostPerLikedItem(user_id, values, n - 1, field, unit)

SymmetricGarmentTags(a, b) ==
    \/ a.garment_type = b.garment_type
    \/ (b.garment_type \in a.style_tags) <=> (a.garment_type \in b.style_tags)

----------------------------------------------------------------------------
(* C1 *)

\* C1 as stated: for every pair of distinct items A and B,
\* calculate_similarity_score(A, B) and calculate_similarity_score(B, A)
\* return the same score.
C1_Symmetric == pair_scores # <<>> => pair_scores[1] = pair_scores[2]

\* C1 amended: the two scores are equal whenever the garment types are equal,
\* or each item's garment type occurs among the other's style tags, or
\* neither does.
C1_SymmetricGarmentTags ==
    (pair_scores # <<>> /\ SymmetricGarmentTags(pair[1], pair[2]))
        => pair_scores[1] = pair_scores[2]

\* a scored primary/accessory pair, each garment type among the other's tags
C1_Witness ==
    /\ pair_scores # <<>>
    /\ pair[1].garment_type = "dress" /\ pair[2].garment_type = "hat"
    /\ "hat" \in pair[1].style_tags /\ "dress" \in pair[2].style_tags
    /\ Cardinality(SharedStyleTags(pair[1], pair[2])) = 3
    /\ pair_scores[1] = F(65)

(* C2 *)

\* C2: every NavigationPath has at most 5 edges, and next_possible_images and
\* path_scores have the same length.
C2_AtMostFiveParallel ==
    \A path \in Paths :
        /\ Len(path.next_possible_images) <= 5
        /\ Len(path.path_scores) = Len(path.next_possible_images)

\* a path in which a variation edge took the place of a primary edge
C2_Witness ==
    \E path \in Paths :
        /\ Len(PrimaryEdges(SourceOf(path))) = 5
        /\ HasVariationEdge(path)
        /\ Len(path.next_possible_images) = 5

(* C3 *)

\* C3: no NavigationPath has its own source id among its edge targets.
C3_NoSelfLoop == \A path \in Paths : path.source_image_id \notin Targets(path)

\* a path with a variation edge, for a source that scores above 0.1 against itself
C3_Witness ==
    \E path \in Paths :
        /\ HasVariationEdge(path)
        /\ FLt(F(10), SimilarityScore(SourceOf(path), SourceOf(path)))

(* C4 *)

\* C4: the scores of every NavigationPath are in non-increasing order.
C4_SortedByScore ==
    \A path \in Paths :
        \A i \in 1..(Len(path.path_scores) - 1) :
            path.path_scores[i] >= path.path_scores[i + 1]

\* a path whose variation edge scores above the primary edges it sits with
C4_Witness ==
    \E path \in Paths :
        /\ HasVariationEdge(path)
        /\ path.next_possible_images[1] \notin Ids(PrimaryEdges(SourceOf(path)))
        /\ path.path_scores[1] > path.path_scores[2]

(* C5 *)

\* C5 as stated: edges of equal score are in ascending order of target id,
\* and when the candidates tie at the cut-off of the primary selection the
\* kept ones have the smaller ids.
C5_TiesByAscendingId ==
    \A path \in Paths :
        /\ \A i \in 1..Len(path.path_scores), j \in 1..Len(path.path_scores) :
               (i < j /\ path.path_scores[i] = path.path_scores[j])
                   => path.next_possible_images[i] < path.next_possible_images[j]
        /\ LET candidates == PotentialCandidates(SourceOf(path), all_images_metadata, 1)
           IN  \A c \in 1..Len(candidates), i \in 1..Len(path.path_scores) :
                   (/\ ~HasVariationEdge(path)
                    /\ candidates[c].image_id \notin Targets(path)
                    /\ Round2(candidates[c].score) = path.path_scores[i])
                       => path.next_possible_images[i] < candidates[c].image_id

(* C6 *)

\* C6: every score stored in a NavigationPath lies in [0,1] (in hundredths).
C6_ScoresInUnitInterval ==
    \A path \in Paths :
        \A i \in 1..Len(path.path_scores) :
            path.path_scores[i] >= 0 /\ path.path_scores[i] <= 100

\* a path holding a primary edge whose rule sum exceeds 1.0 and a variation
\* edge whose variation score exceeds 1.0
C6_Witness ==
    \E path \in Paths :
        /\ \E t \in Targets(path) :
               /\ t \in Ids(PrimaryEdges(SourceOf(path)))
               /\ LET c == ImageById(all_images_metadata, t)
                  IN  10 * Cardinality(SharedStyleTags(SourceOf(path), c))
                        + GarmentRule(SourceOf(path), c)
                        + AccessoryRule(SourceOf(path), c) > 100
        /\ \E t \in Targets(path) :
               /\ t \notin Ids(PrimaryEdges(SourceOf(path)))
               /\ VariationScore(Cardinality(SharedStyleTags(
                      SourceOf(path), ImageById(all_images_metadata, t)))).h > 100

(* C7 *)

\* C7: generate_recommendations_for_pair never returns the source item id
\* nor the id of an item the user has clicked, whatever the navigation
\* path, the history and the cache hold.
C7_NeverSourceNorClicked ==
    \A call \in Calls :
        Range(call.recommended_ids)
            \cap ({call.source_image_id} \cup ClickedIds(call.user_id)) = {}

\* a call that returned items although the path of its source lists the
\* source itself and a clicked item
C7_Witness ==
    \E call \in Calls :
        LET nav_candidates ==
                Range(get_navigation_path_for_source(call.source_image_id).next_possible_images)
        IN  /\ call.source_image_id \in nav_candidates
            /\ ClickedIds(call.user_id) \cap nav_candidates # {}
            /\ call.recommended_ids # <<>>

(* C8 *)

\* C8: two calls for the same (user, source) over the same tables return
\* the same ranked ids and the same reasons, whatever the order of the
\* history rows and whatever the cache held.
C8_Deterministic ==
    \A call \in Range(last_call) :
        LET key == <<call.user_id, call.source_image_id>>
        IN  key \in DOMAIN first_call =>
                /\ call.recommended_ids = first_call[key].recommended_ids
                /\ call.reasons = first_call[key].reasons

\* two calls for one pair: the history rows came in different orders, a
\* returned item was cached before one call and not before the other, and
\* the item returned first carries a reason taken from the history
C8_Witness ==
    \E call \in Range(last_call) :
        LET key == <<call.user_id, call.source_image_id>>
        IN  /\ key \in DOMAIN first_call
            /\ call.user_clicked_history # first_call[key].user_clicked_history
            /\ \E id \in Range(call.recommended_ids) :
                   /\ id \in call.cache_before
                   /\ id \notin first_call[key].cache_before
            /\ call.recommended_ids # <<>>
            /\ Placeholder \notin Range(call.reasons[1])

(* C9 *)

\* C9 as stated: for every user the simulator has processed, the number of
\* committed events of the session is between 3 and 7.
C9_ThreeToSeven ==
    \A user_id \in ProcessedUsers :
        /\ Len(CommittedRows(user_id)) >= 3
        /\ Len(CommittedRows(user_id)) <= 7

\* C9 amended: a processed user whose session met no failed insert has
\* between 3 and 7 committed events, a user whose session was rolled back
\* has none; while a session is open every step done, a bounce included,
\* has recorded exactly one event.
C9_ThreeToSevenOrRolledBack ==
    /\ \A user_id \in ProcessedUsers :
           IF user_id \in rolled_back
           THEN Len(CommittedRows(user_id)) = 0
           ELSE /\ Len(CommittedRows(user_id)) >= 3
                /\ Len(CommittedRows(user_id)) <= 7
    /\ session_length > 0 =>
           /\ Len(transaction) = step
           /\ step < session_length

\* a session of 7 committed events whose last step followed a path and
\* bounced
C9_Witness ==
    \E user_id \in ProcessedUsers :
        /\ user_id = user_ids[user_index - 1]
        /\ Len(CommittedRows(user_id)) = 7
        /\ last_step = "bounce"

(* C10 *)

\* C10: the first event recorded for a user, committed or still in the
\* open transaction, is for a catalog item and has clicked = TRUE, and an
\* open session has recorded it before anything else.
C10_FirstEventClicked ==
    /\ \A i \in 1..Len(user_ids) :
           LET rows == CommittedRows(user_ids[i])
           IN  rows # <<>> =>
                   rows[1].clicked /\ rows[1].image_id \in Range(all_image_ids)
    /\ session_length > 0 =>
           /\ transaction # <<>>
           /\ transaction[1].clicked
           /\ transaction[1].image_id \in Range(all_image_ids)
           /\ \A i \in 1..Len(transaction) :
                  transaction[i].user_id = user_ids[user_index]
    /\ session_length = 0 => transaction = <<>>

\* a committed session whose events after the first are not clicked
C10_Witness ==
    \E user_id \in ProcessedUsers :
        LET rows == CommittedRows(user_id)
        IN  /\ Len(rows) >= 3
            /\ rows[1].clicked
            /\ \A i \in 2..Len(rows) : ~rows[i].clicked

(* C11 *)

\* C11 as stated: a second run of generate_navigation_paths over the same
\* catalog snapshot yields, for every source, the path the first run
\* yielded, whatever the outcome of the trial of line 131 in the second run.
C11_SameOnRebuild ==
    \A path \in Paths :
        \A try_variation \in BOOLEAN :
            LET again == FinalSelectedImages(SourceOf(path), all_images_metadata,
                                             try_variation)
            IN  /\ again # <<>>
                /\ NavigationPath(SourceOf(path), all_images_metadata, again) = path

(* C12 *)

\* the sum of the three rules for (A, B), in hundredths, as C12 words it
C12_RuleSum(A, B) ==
    LET g == IF A.garment_type = B.garment_type THEN 20
             ELSE IF B.garment_type \in A.style_tags THEN 10 ELSE 0
        c == IF \/ /\ A.garment_type \in PRIMARY_GARMENT_TYPES
                    /\ B.garment_type \in ACCESSORY_GARMENT_TYPES
                \/ /\ B.garment_type \in PRIMARY_GARMENT_TYPES
                    /\ A.garment_type \in ACCESSORY_GARMENT_TYPES
             THEN 25 ELSE 0
    IN  10 * Cardinality(A.style_tags \cap B.style_tags) + g + c

\* C12: calculate_similarity_score(A, B) is min(1, 0.1 x shared tags + g + c)
\* (compared at two decimals); 2 shared tags with the same garment type and
\* no complementarity give exactly 0.4, a primary/accessory pair without
\* shared tags and without a garment rule gives exactly 0.25.
C12_ScoreFormula ==
    pair_scores # <<>> =>
        \A d \in {1, 2} :
            LET A == pair[d]
                B == pair[3 - d]
                sum == C12_RuleSum(A, B)
            IN  /\ Round2(pair_scores[d]) = (IF sum > 100 THEN 100 ELSE sum)
                /\ (/\ Cardinality(A.style_tags \cap B.style_tags) = 2
                     /\ A.garment_type = B.garment_type)
                       => pair_scores[d] = F(40)
                /\ (/\ A.style_tags \cap B.style_tags = {}
                     /\ A.garment_type \in PRIMARY_GARMENT_TYPES
                     /\ B.garment_type \in ACCESSORY_GARMENT_TYPES
                     /\ B.garment_type \notin A.style_tags)
                       => pair_scores[d] = F(25)

\* a scored pair in which the garment rule counts one way only and the sum
\* of the rules exceeds 1
C12_Witness ==
    /\ pair_scores # <<>>
    /\ pair[1].garment_type = "t-shirt" /\ pair[2].garment_type = "hat"
    /\ "hat" \in pair[1].style_tags
    /\ "t-shirt" \notin pair[2].style_tags
    /\ Cardinality(SharedStyleTags(pair[1], pair[2])) = 8
    /\ pair_scores[1] = F(100)
    /\ Round2(pair_scores[2]) = 100

(* C13 *)

\* C13: a source against which at most 5 other items score above 0.1 has an
\* edge to each of them and to no other item, whether or not the variation
\* scan ran.
C13_AllCandidatesKept ==
    \A source_image \in DoneSources :
        Cardinality(ScoringAbove(source_image)) <= 5
            => StoredTargets(source_image) = ScoringAbove(source_image)

\* a source with fewer than 3 candidates, so that the variation scan ran,
\* and the scan met an item of another gender sharing 2 tags
C13_Witness ==
    \E source_image \in DoneSources :
        /\ Cardinality(ScoringAbove(source_image)) \in {1, 2}
        /\ StoredTargets(source_image) = ScoringAbove(source_image)
        /\ \E i \in 1..Len(all_images_metadata) :
               /\ all_images_metadata[i].gender # source_image.gender
               /\ Cardinality(SharedStyleTags(source_image, all_images_metadata[i])) >= 2

\* a source with an item that scores exactly 0.1 against it and has no edge
C13_AtThreshold ==
    \E source_image \in DoneSources :
        \E i \in 1..Len(all_images_metadata) :
            /\ SimilarityScore(source_image, all_images_metadata[i]) = F(10)
            /\ StoredTargets(source_image) # {}
            /\ all_images_metadata[i].image_id \notin StoredTargets(source_image)

(* C14 *)

\* C14: a source against which no other item scores above 0.1 has no
\* NavigationPath, and every NavigationPath has at least one edge.
C14_NoCandidatesNoPath ==
    /\ \A source_image \in DoneSources :
           ScoringAbove(source_image) = {}
               => \A path \in Paths : path.source_image_id # source_image.image_id
    /\ \A path \in Paths :
           /\ Len(path.next_possible_images) >= 1
           /\ Len(path.path_scores) >= 1

\* a source without a path in a catalog where other sources have one: the
\* only items near it are of another gender and score exactly 0.1
C14_Witness ==
    /\ Paths # {}
    /\ \E source_image \in DoneSources :
           /\ ScoringAbove(source_image) = {}
           /\ \A path \in Paths : path.source_image_id # source_image.image_id
           /\ \E i \in 1..Len(all_images_metadata) :
                  /\ all_images_metadata[i].gender # source_image.gender
                  /\ SimilarityScore(source_image, all_images_metadata[i]) = F(10)

(* C15 *)

\* C15 as stated: the final score of a candidate is its stored edge score
\* plus 0.1 x (number of liked items carrying the tag) for each of its style
\* tags, plus 0.05 x (number of liked items carrying the color) for each of
\* its colors, plus 0.2 when its garment type is a liked garment type other
\* than the source's (in hundredths; a candidate without a metadata row
\* keeps its stored score).
C15_BoostPerLikedItem ==
    \A call \in Range(last_call) :
        \A i \in 1..Len(call.sorted_candidates) :
            LET data == call.sorted_candidates[i]
                base == BaseScore(call.source_image_id, data.image_id)
                meta == image_metadata[data.image_id]
                liked_garments ==
                    {image_metadata[id].garment_type : id \in LikedItems(call.user_id)}
            IN  Round2(data.score) =
                    IF data.image_id \notin DOMAIN image_metadata THEN base
                    ELSE base
                         + BoostPerLikedItem(call.user_id, meta.style_tags,
                                             Len(meta.style_tags), "style_tags", 10)
                         + BoostPerLikedItem(call.user_id, meta.dominant_colors,
                                             Len(meta.dominant_colors), "dominant_colors", 5)
                         + (IF /\ meta.garment_type \in liked_garments
                               /\ meta.garment_type #
                                      image_metadata[call.source_image_id].garment_type
                            THEN 20 ELSE 0)

(* The order the ranking is stated in: higher boosted score first, and among
   equal scores the smaller item id first. *)
RanksBefore(a, b) ==
    \/ FLt(b.score, a.score)
    \/ /\ ~FLt(a.score, b.score)
       /\ a.image_id < b.image_id

(* C16: the returned items are ranked by boosted score descending with ties
   broken by ascending item id, and they are the 3 best candidates under that
   order (all of them when fewer than 3 remain after filtering): the i-th
   returned id is the candidate that exactly i - 1 candidates rank before. *)
C16_RankedByScoreThenId ==
    \A call \in Range(last_call) :
        LET candidates == Range(call.sorted_candidates)
        IN  /\ Len(call.recommended_ids) =
                   (IF Cardinality(candidates) < TopN
                    THEN Cardinality(candidates) ELSE TopN)
            /\ \A i \in 1..Len(call.recommended_ids) :
                   \E data \in candidates :
                       /\ data.image_id = call.recommended_ids[i]
                       /\ Cardinality({other \in candidates :
                                          RanksBefore(other, data)}) = i - 1

(* The row main writes for a call that returned something (line 281). *)
RowOf(call) ==
    [user_id |-> call.user_id, source_image_id |-> call.source_image_id,
     recommended_images |-> call.recommended_ids, reasoning |-> call.reasons]

(* C17: a call returns at most 3 item ids, all distinct, with exactly one
   reason string per returned id; and the recommendations log changes only by
   appending the row of a call that returned at least one id. *)
C17_AtMostThreeDistinctWithReasons ==
    /\ [](\A call \in Range(last_call) :
              /\ Len(call.recommended_ids) <= 3
              /\ \A i, j \in 1..Len(call.recommended_ids) :
                     call.recommended_ids[i] = call.recommended_ids[j] => i = j
              /\ Len(call.reasons) = Len(call.recommended_ids))
    /\ [][recommendations' # recommendations =>
              /\ last_call'[1].recommended_ids # <<>>
              /\ recommendations' = Append(recommendations, RowOf(last_call'[1]))]_vars

C17_Witness ==
    \E call \in Range(last_call) :
        /\ Len(call.sorted_candidates) > 3
        /\ Len(call.recommended_ids) = 3
        /\ recommendations = <<RowOf(call)>>

(* C19: a call whose source item has no metadata row returns an empty result
   and leaves the metadata cache without an entry for the source id, and the
   step that makes the call writes no row to the recommendations log.  That
   the loop goes on is the state of C19_Witness: the pair processed after a
   skipped one, in the same run, got its row. *)
C19_MissingSourceSkipped ==
    /\ [](\A call \in Range(last_call) :
              call.source_image_id \notin DOMAIN image_metadata =>
                  /\ call.recommended_ids = <<>>
                  /\ call.reasons = <<>>
                  /\ call.source_image_id \notin DOMAIN all_metadata_cache)
    /\ [][\A call \in Range(last_call') :
              (call.source_image_id \notin DOMAIN image_metadata /\ last_call' # last_call)
                  => recommendations' = recommendations]_vars

(* The pair of a source without metadata was skipped with the cache left
   empty, and the next pair of the same run got its row. *)
C19_Witness ==
    \E call \in Range(last_call), key \in DOMAIN first_call :
        /\ first_call[key].source_image_id \notin DOMAIN image_metadata
        /\ first_call[key].source_image_id \in DOMAIN image_navigation_paths
        /\ first_call[key].recommended_ids = <<>>
        /\ call.source_image_id \in DOMAIN image_metadata
        /\ call.cache_before = {}
        /\ recommendations = <<RowOf(call)>>

(* C18: each user's events are committed as one unit.  No row of a user whose
   session met a failed insert is ever persisted; the step of the failed
   insert ends that session, discards the rows buffered for it and leaves the
   committed rows of every other user as they are; and the step that ends a
   session without a failure appends all the events of that session, in
   order, to the committed rows. *)
C18_SessionCommittedAsUnit ==
    /\ [](\A user_id \in rolled_back : CommittedRows(user_id) = <<>>)
    /\ [][/\ rolled_back' # rolled_back =>
                /\ user_index' = user_index + 1
                /\ session_length' = 0
                /\ transaction' = <<>>
                /\ user_interactions' = user_interactions
          /\ (user_index' # user_index /\ rolled_back' = rolled_back) =>
                /\ Len(user_interactions') = Len(user_interactions) + session_length
                /\ SubSeq(user_interactions', 1, Len(user_interactions) + Len(transaction))
                       = user_interactions \o transaction
                /\ \A k \in (Len(user_interactions) + 1)..Len(user_interactions') :
                       user_interactions'[k].user_id = user_ids[user_index]
          /\ user_index' = user_index =>
                user_interactions' = user_interactions]_vars

(* The second user lost a session with events already buffered; the user
   before it has its whole session committed. *)
C18_Witness ==
    /\ user_index = 3
    /\ rolled_back = {user_ids[2]}
    /\ Len(CommittedRows(user_ids[1])) >= MinSession
    /\ total_interactions_recorded > Len(user_interactions)

(* The first user lost a session with events already buffered; the user after
   it has its whole session committed. *)
C18_AfterRollback ==
    /\ user_index = 3
    /\ rolled_back = {user_ids[1]}
    /\ Len(CommittedRows(user_ids[2])) >= MinSession
    /\ total_interactions_recorded > Len(user_interactions)

(* C20: a failed metadata write rolls back only the row of its own item: when
   the run has ended every image was processed, and every row that
   insert_metadata_to_db saved during the run is in the table image_metadata. *)
C20_EarlierRowsPersist ==
    (~conn_open /\ image_files # <<>>) =>
        /\ processed_count = Len(image_files)
        /\ \A image_id \in DOMAIN saved_metadata :
               /\ image_id \in DOMAIN image_metadata
               /\ image_metadata[image_id] = saved_metadata[image_id]

(* C21: a failure while writing one NavigationPath upsert rolls back only that
   path: after a run whose upsert number failed_path failed, every other path
   of the build is the stored row of its source. *)
C21_OtherPathsPersist ==
    failed_path > 0 =>
        \A k \in 1..Len(navigation_paths) :
            k # failed_path =>
                /\ navigation_paths[k].source_image_id \in DOMAIN image_navigation_paths
                /\ image_navigation_paths[navigation_paths[k].source_image_id]
                       = navigation_paths[k]

(* The boost reasons a candidate is due: one per style tag and per color of
   its own that a liked item carries, and one for its garment type when a
   liked item has that type and the source has another. *)
DueBoostReasons(user_id, source_image_id, image_id) ==
    LET meta == image_metadata[image_id]
    IN  {[kind |-> "style", token |-> tag] :
            tag \in {t \in Range(meta.style_tags) :
                        LikedItemsCarrying(user_id, "style_tags", t) > 0}}
        \cup {[kind |-> "color", token |-> color] :
                color \in {c \in Range(meta.dominant_colors) :
                              LikedItemsCarrying(user_id, "dominant_colors", c) > 0}}
        \cup (IF /\ \E id \in LikedItems(user_id) :
                        image_metadata[id].garment_type = meta.garment_type
                  /\ meta.garment_type # image_metadata[source_image_id].garment_type
               THEN {[kind |-> "type", token |-> meta.garment_type]}
               ELSE {})

(* C22: a candidate that received at least one boost has as its reasons
   exactly its boost reasons, each once, in ascending text order and without
   the placeholder; a candidate without a boost, or without metadata, has
   exactly the placeholder; and the reason returned with an id is the reason
   list of that candidate. *)
C22_ReasonsReplacePlaceholder ==
    \A call \in Range(last_call) :
        /\ \A i \in 1..Len(call.sorted_candidates) :
               LET data == call.sorted_candidates[i]
                   due == IF data.image_id \in DOMAIN image_metadata
                          THEN DueBoostReasons(call.user_id, call.source_image_id,
                                               data.image_id)
                          ELSE {}
               IN  IF due = {} THEN data.reasons = <<Placeholder>>
                   ELSE /\ Range(data.reasons) = due
                        /\ \A j, k \in 1..Len(data.reasons) :
                               j < k => ReasonKey(data.reasons[j]) < ReasonKey(data.reasons[k])
        /\ \A i \in 1..Len(call.recommended_ids) :
               call.reasons[i] = call.sorted_candidates[i].reasons

C22_Witness ==
    \E call \in Range(last_call) :
        \E i, j \in 1..Len(call.recommended_ids) :
            /\ Len(call.reasons[i]) >= 2
            /\ Placeholder \notin Range(call.reasons[i])
            /\ call.reasons[j] = <<Placeholder>>
            /\ LikedItems(call.user_id) # {}

(* C23: over the calls that share one cache the cache is append-only: a call
   leaves every entry it found in place and unchanged (only the next run of
   main starts from an empty cache), and the metadata store is asked only for
   ids that have no entry when the query is made. *)
C23_CacheAppendOnly ==
    /\ [](\A call \in Range(last_call) :
              \A q \in 1..Len(call.queries) :
                  call.queries[q].image_ids \cap call.queries[q].cached = {})
    /\ [][\/ /\ all_metadata_cache' = Empty
              /\ UNCHANGED <<first_call, last_call, recommendations>>
           \/ \A id \in DOMAIN all_metadata_cache :
                  /\ id \in DOMAIN all_metadata_cache'
                  /\ all_metadata_cache'[id] = all_metadata_cache[id]]_vars

(* A later call of a run: its source and its liked item were in the cache
   already and were not asked for again, a candidate was not and was fetched. *)
C23_Witness ==
    \E call \in Range(last_call) :
        /\ call.source_image_id \in call.cache_before
        /\ Range(call.user_clicked_history) \cap call.cache_before # {}
        /\ Len(call.queries) = 1
        /\ DOMAIN all_metadata_cache # call.cache_before

(* C24: while a session is open every step done has recorded exactly one
   event, and the current item is the item of the event recorded last, entry,
   followed click, random skip and no-edge step alike, clicked or not; except
   after a followed view that was not clicked, where the event recorded last
   is that not-clicked view and the current item is some catalog item. *)
C24_CurrentIsLastEvent ==
    session_length > 0 =>
        /\ Len(transaction) = step
        /\ IF last_step = "bounce"
           THEN /\ ~transaction[Len(transaction)].clicked
                /\ current_image_id \in Range(all_image_ids)
           ELSE current_image_id = transaction[Len(transaction)].image_id

(* after a followed view that was not clicked the current item is another
   item than the one viewed *)
C24_Witness ==
    /\ session_length > 0
    /\ last_step = "bounce"
    /\ ~transaction[Len(transaction)].clicked
    /\ current_image_id # transaction[Len(transaction)].image_id

(* a random skip or no-edge step that was not clicked moved the current item *)
C24_SkipNotClicked ==
    /\ session_length > 0
    /\ last_step = "skip"
    /\ ~transaction[Len(transaction)].clicked
    /\ current_image_id = transaction[Len(transaction)].image_id
    /\ Len(transaction) > 1
    /\ transaction[Len(transaction) - 1].image_id # current_image_id

(* C27: when simulate_user_sessions has gone through every user, the total it
   reports as recorded is the number of events committed to the interaction
   log. *)
C27_ReportedEqualsCommitted ==
    (user_ids # <<>> /\ user_index > Len(user_ids)) =>
        total_interactions_recorded = Len(user_interactions)

(* C25: for a source whose primary edge set holds 5 edges, the built path
   still has exactly 5 distinct targets, and a target that is not a primary
   edge is a variation candidate (other gender, at least 2 shared tags) whose
   variation score min(1.0, 0.1 + 0.1 x shared tags) is strictly greater than
   the lowest score of the primary edges; without such a target the path
   holds the primary edges. *)
C25_ReplacesOnlyStrictlyLower ==
    \A path \in Paths :
        LET selected == PrimaryEdges(SourceOf(path))
        IN  Len(selected) = 5 =>
                /\ Cardinality(Targets(path)) = 5
                /\ Len(path.next_possible_images) = 5
                /\ \A t \in Targets(path) \ Ids(selected) :
                       LET candidate == ImageById(all_images_metadata, t)
                           shared == Cardinality(SharedStyleTags(SourceOf(path), candidate))
                       IN  /\ candidate.gender # SourceOf(path).gender
                           /\ shared >= 2
                           /\ FLt(selected[LowestScoreIdx(selected)].score,
                                  Clip(VariationScore(shared)))

(* the items eligible as a variation edge of the source: another gender and
   at least 2 shared style tags *)
EligibleForVariation(source_image) ==
    {all_images_metadata[i].image_id : i \in
        {j \in 1..Len(all_images_metadata) :
            /\ all_images_metadata[j].image_id # source_image.image_id
            /\ all_images_metadata[j].gender # source_image.gender
            /\ Cardinality(SharedStyleTags(source_image, all_images_metadata[j])) >= 2}}

(* C26: for the source processed last (each source is, in some state, the
   one processed last, and a path is never changed once stored): every item
   eligible as a variation edge of the source scores at least 0.2 against it
   and above the 0.1 threshold of a primary candidate; every edge target of
   its path scores above 0.1 against it; and when the source has fewer than
   5 primary edges its path holds exactly its primary edges, in their order
   (no path when it has none). *)
C26_VariationIsPrimaryCandidate ==
    next_source > 1 =>
        \E source_image \in {all_images_metadata[next_source - 1]} :
        \E selected \in {PrimaryEdges(source_image)} :
        \E stored \in {{path \in Paths : path.source_image_id = source_image.image_id}} :
            /\ \A id \in EligibleForVariation(source_image) :
                   \E score \in {SimilarityScore(source_image, ImageById(all_images_metadata, id))} :
                       /\ ~FLt(score, F(20))
                       /\ FLt(F(10), score)
            /\ \A path \in stored :
                   \A t \in Targets(path) :
                       FLt(F(10), SimilarityScore(source_image, ImageById(all_images_metadata, t)))
            /\ Len(selected) < 5 =>
                   IF selected = <<>>
                   THEN stored = {}
                   ELSE \E path \in stored :
                           path.next_possible_images =
                               [k \in 1..Len(selected) |-> selected[k].image_id]

(* a source with fewer than 5 primary edges whose path holds an edge to an
   item of another gender that shares at least 2 style tags with it *)
C26_Witness ==
    \E path \in Paths :
        /\ Len(PrimaryEdges(SourceOf(path))) < 5
        /\ EligibleForVariation(SourceOf(path)) \cap Targets(path) # {}

(* a source next to an item of another gender that shares a single style tag
   with it, scores exactly 0.1 against it and has no edge from it *)
C26_SingleSharedTag ==
    \E path \in Paths :
        \E i \in 1..Len(all_images_metadata) :
            /\ all_images_metadata[i].gender # SourceOf(path).gender
            /\ Cardinality(SharedStyleTags(SourceOf(path), all_images_metadata[i])) = 1
            /\ SimilarityScore(SourceOf(path), all_images_metadata[i]) = F(10)
            /\ all_images_metadata[i].image_id \notin Targets(path)

(* C28: after a run that built at least one path and whose
   insert_navigation_paths committed, the stored rows are exactly the paths
   built from the snapshot of that run: a row equal to its path for every
   source with a path, and no row for any other source. *)
C28_StoredRowsAreDerivable ==
    (navigation_paths # <<>> /\ failed_path = 0) =>
        /\ DOMAIN image_navigation_paths = {path.source_image_id : path \in Paths}
        /\ \A path \in Paths : image_navigation_paths[path.source_image_id] = path

====
